---- MODULE Spec2Model ----
(***************************************************************************)
(* Model of src/pokebase/pokebase.py: the whosthatpokemon guessing round   *)
(* (Pokebase.whosthatpokemon, with its cooldown and max_concurrency        *)
(* decorators), the fetch helpers it calls, the image compositor           *)
(* Pokebase.generate_image, and the lookup commands pdex, ability, moves,  *)
(* item, itemcat, location and trainercard.                                *)
(*                                                                         *)
(* A round is one invocation of the command coroutine.  Its local          *)
(* variables are the fields of rounds[r]; every await of the coroutine is  *)
(* a boundary between two actions.  Strings that the code lower-cases are  *)
(* sequences of one-character strings.  An invocation of a lookup command  *)
(* is the record lookup, one action for every fetch it awaits.             *)
(*                                                                         *)
(* The specifications share the actions:                                   *)
(*   Spec        the flow of a round, with a few labels and draws;         *)
(*   SpecPick    the choice of the identifier, with every label and draw;  *)
(*   SpecImage   generate_image on bounded templates and sprites;          *)
(*   SpecLive    the flow of a round under the scheduling of its wait;     *)
(*   SpecGate    overlapping invocations behind the gate of the command;   *)
(*   SpecNoGate  overlapping invocations in a channel without              *)
(*               max_concurrency;                                          *)
(*   SpecLookup  the lookup commands.                                      *)
(* The gate of the command (cooldown, max_concurrency) and the imaging     *)
(* library (resize, paste) are the framework's; they are modelled by what  *)
(* the decorators and calls of the source ask of them.  Sprites are taken  *)
(* to be RGBA images, as the comparison of line 812 expects.  The result   *)
(* cache of the fetch helpers (aiocache) is left out: every fetch is made. *)
(***************************************************************************)
EXTENDS Integers, Sequences, FiniteSets, TLC

\* ------------------------------------------------------------------ bounds

NumUsers == 2

NumChannels == 2

MaxRounds == 2

\* Sizes of the decoded sprite and of the bundled template, in pixels.
MaxSpriteW == 2

MaxSpriteH == 2

MaxTemplateW == 12

MaxTemplateH == 5

\* The encounters of a pokemon that location lists, and the words of the
\* `pokemons` argument of trainercard.
MaxEncounters == 2

MaxSelections == 7

Users == 1..NumUsers

Channels == 1..NumChannels

Rounds == 1..MaxRounds

\* ------------------------------------------------------------ input values

\* Python's None for the optional argument `generation: str = None`.
NONE == "<None>"

allowed_gens == <<"gen1", "gen2", "gen3", "gen4", "gen5", "gen6", "gen7", "gen8">>

AllowedSet == {allowed_gens[i] : i \in DOMAIN allowed_gens}

\* Every label a user can pass: none, the empty quoted argument, the eight
\* recognised labels, and unrecognised ones (a ninth generation, wrong case).
AllLabels == {NONE, ""} \cup AllowedSet \cup {"gen9", "GEN1"}

\* The labels of the flow specification: none, empty, one recognised, two not.
FlowLabels == {NONE, "", "gen1", "gen9", "GEN1"}

\* The draws of random.randint the flow specification follows; SpecPick
\* follows every draw.
FlowDraws == {25, 898}

AllDraws == 0..899

\* Python truthiness of `generation`: None and "" are falsy.
Truthy(generation) == generation # NONE /\ generation # ""

\* Characters of message contents and names; str.lower() on each.
LowerChar(ch) ==
    CASE ch = "P" -> "p"
      [] ch = "I" -> "i"
      [] ch = "K" -> "k"
      [] ch = "A" -> "a"
      [] OTHER -> ch

Lower(s) == [i \in DOMAIN s |-> LowerChar(s[i])]

\* Fixture names: the English name and one localized name of a species.
NamePi == <<"P", "i">>

NameKa == <<"K", "a">>

\* The "names" list of a species document: entries {name, language: {name}}.
EnglishFirst ==
    << [language |-> "en", name |-> NamePi], [language |-> "ja", name |-> NameKa] >>

NameLists ==
    { EnglishFirst,
      << [language |-> "ja", name |-> NameKa], [language |-> "en", name |-> NamePi] >>,
      << [language |-> "ja", name |-> NameKa] >> }

\* Message contents a user may type.
Contents ==
    { <<"p", "i">>, <<"P", "I">>, <<"k", "a">>, <<"p">>, <<"p", "i", " ">>, <<"r", "a">> }

\* Result of the HTTP GET: a 200 response, a non-200 response, or
\* asyncio.TimeoutError.
HttpResults == {"200", "404", "timeout"}

\* Result of message.delete(): done, or one of the suppressed exceptions.
DeleteResults == {"ok", "NotFound", "Forbidden", "HTTPException"}

\* Pixels are <<red, green, blue, alpha>>.  The pixels a scaled sprite is made
\* of: transparent black, transparent with colour left in it (as image editors
\* and resampling leave behind), half transparent, opaque.
Clear == <<0, 0, 0, 0>>

ClearTinted == <<255, 255, 255, 0>>

Faint == <<200, 50, 50, 128>>

Solid == <<200, 50, 50, 255>>

Palette == {Clear, ClearTinted, Faint, Solid}

\* The pixel of the bundled template (data/template.png), taken as one opaque
\* colour that no sprite pixel has.
TemplatePixel == <<30, 60, 90, 255>>

\* ---------------------------------------------------------------- state

VARIABLES
    rounds,      \* rounds[r]: the locals of command invocation r and what it has done
    cooldown,    \* cooldown[c]: the channel's cooldown bucket is used up (line 831)
    rejected,    \* the error the gate raised for the latest invocation, or "none"
    call,        \* the locals of one call of generate_image
    lookup       \* the locals of one invocation of a lookup command

roundVars == <<rounds, cooldown, rejected>>

vars == <<rounds, cooldown, rejected, call, lookup>>

\* A slot that holds no invocation yet.  Besides the coroutine's locals a round
\* records what it did: the URLs and the species it requested, whether the
\* hidden image was sent, whether the wait began, passed a message over or
\* timed out, whether line 898 was reached, the exception that ended it, and
\* in log the calls it made on the platform's messages, in their order.
IdleRound ==
    [ pc |-> "idle", author |-> 0, channel |-> 0, generation |-> NONE,
      poke_id |-> 0, hidden_url |-> <<>>, species_id |-> 0, reveal_url |-> <<>>,
      names_data |-> <<>>, eligible_names |-> <<>>, english_name |-> <<>>,
      answer |-> <<>>, outcome |-> "none", shown_name |-> <<>>,
      prompt |-> "none", deleted |-> "none", hidden_sent |-> FALSE,
      waited |-> FALSE, ignored |-> FALSE, timed_out |-> FALSE,
      verified |-> FALSE, fetches |-> 0, failed |-> "none", log |-> <<>> ]

\* An image: its size and its pixels, px[<<x, y>>] for 0 <= x < width, 0 <= y < height.
NoImage == [width |-> 0, height |-> 0, px |-> <<>>]

\* No call of generate_image is under way.
IdleCall ==
    [ pc |-> "idle", hide |-> FALSE, base_image |-> NoImage, poke_image |-> NoImage,
      poke_image_resized |-> NoImage, pasted |-> NoImage, paste_at |-> <<0, 0>>,
      composite |-> NoImage, open |-> {}, result |-> "none" ]

\* No lookup command is under way.  Besides the command's locals an invocation
\* records the external calls it made and how many of them failed, the fields
\* of the documents it received that held no English entry, the sections it
\* put in the embed, the message it sent and the exception that left it.
IdleLookup ==
    [ cmd |-> "none", pc |-> "idle", id |-> 0, generation |-> 0, introduced_in |-> "none",
      pokemon_name |-> "none", style |-> "none", trainer |-> "none", badge |-> "none",
      selections |-> 0, left |-> 0, pkmn_ids |-> <<>>, panel_ids |-> <<>>,
      form |-> [pokemon |-> 0, pokemonUsed |-> <<>>],
      calls |-> 0, failures |-> 0, missing |-> {}, sections |-> {},
      sent |-> "none", raised |-> "none" ]

Init ==
    /\ rounds = [r \in Rounds |-> IdleRound]
    /\ cooldown = [c \in Channels |-> FALSE]
    /\ rejected = "none"
    /\ call = IdleCall
    /\ lookup = IdleLookup

\* ------------------------------------------------------- pure helpers

\* PokeRange with the upper end of gen3 one too high.
PokeRange_Gen3TooWide(generation) ==
    CASE generation = "gen1" -> <<1, 151>>
      [] generation = "gen2" -> <<152, 251>>
      [] generation = "gen3" -> <<252, 387>>
      [] generation = "gen4" -> <<387, 493>>
      [] generation = "gen5" -> <<494, 649>>
      [] generation = "gen6" -> <<650, 721>>
      [] generation = "gen7" -> <<722, 809>>
      [] generation = "gen8" -> <<810, 898>>
      [] OTHER -> <<1, 898>>

\* The closed range random.randint is called with for a generation argument.
PokeRange(generation) ==
    CASE generation = "gen1" -> <<1, 151>>
      [] generation = "gen2" -> <<152, 251>>
      [] generation = "gen3" -> <<252, 386>>
      [] generation = "gen4" -> <<387, 493>>
      [] generation = "gen5" -> <<494, 649>>
      [] generation = "gen6" -> <<650, 721>>
      [] generation = "gen7" -> <<722, 809>>
      [] generation = "gen8" -> <<810, 898>>
      [] OTHER -> <<1, 898>>

\* random.randint(a, b): any integer of a..b.
randint(a, b) == a..b

\* str(n) for n >= 0, as its decimal digits.
RECURSIVE Str(_)
Str(n) == IF n < 10 THEN <<n>> ELSE Append(Str(n \div 10), n % 10)

\* str.zfill(width): zeros on the left up to width.
RECURSIVE zfill(_, _)
zfill(s, width) == IF Len(s) >= width THEN s ELSE zfill(<<0>> \o s, width)

\* The identifier an artwork URL .../full/<digits>.png names.
RECURSIVE UrlNumber(_)
UrlNumber(digits) ==
    IF digits = <<>> THEN 0
    ELSE 10 * UrlNumber(SubSeq(digits, 1, Len(digits) - 1)) + digits[Len(digits)]

\* get_pokemon_image and get_species_data: None unless the status is 200.
Fetched(http) == http = "200"

\* eligible_names = [x["name"].lower() for x in names_data]
EligibleNames(names_data) == [i \in DOMAIN names_data |-> Lower(names_data[i].name)]

\* [x["name"] for x in names_data if x["language"]["name"] == "en"]
IsEnglish(x) == x.language = "en"

\* EnglishNames without the language filter.
EnglishNames_Unfiltered(names_data) == [i \in DOMAIN names_data |-> names_data[i].name]

EnglishNames(names_data) ==
    LET en == SelectSeq(names_data, IsEnglish) IN [i \in DOMAIN en |-> en[i].name]

\* x in list
InList(x, list) == \E i \in DOMAIN list : list[i] = x

\* check without the channel comparison.
check_AuthorOnly(round, m) == m.author = round.author

\* check without the author comparison.
check_ChannelOnly(round, m) == m.channel = round.channel

\* def check(m)
check(round, m) == m.author = round.author /\ m.channel = round.channel

\* Verdict without lower-casing the answer.
Verdict_NoLower(content, eligible_names) ==
    IF ~InList(content, eligible_names) THEN "Incorrect" ELSE "Correct"

\* Lines 898-916: the branch the answer takes.  A Message object is truthy.
Verdict(content, eligible_names) ==
    IF ~InList(Lower(content), eligible_names) THEN "Incorrect" ELSE "Correct"

\* Suppressed missing the Forbidden error.
Suppressed_NotForbidden(del) == del \in {"NotFound", "HTTPException"}

\* with suppress(discord.NotFound, discord.Forbidden, discord.HTTPException):
\* the errors of message.delete() that do not leave the block.
Suppressed(del) == del \in {"NotFound", "Forbidden", "HTTPException"}

\* What is left of the prompt after message.delete() under suppress(...).
PromptAfter(del) == IF del \in {"ok", "NotFound"} THEN "deleted" ELSE "shown"

\* ------------------------------------------------------- the gate

\* max_concurrency(1, channel): an invocation of the channel is still running.
Busy(c) == \E r \in Rounds : rounds[r].pc \notin {"idle", "done"} /\ rounds[r].channel = c

\* Gate without max_concurrency.
Gate_CooldownOnly(c) == IF cooldown[c] THEN "CommandOnCooldown" ELSE "run"

\* The decorators of lines 831-832, in the order the framework applies them.
Gate(c) ==
    IF Busy(c) THEN "MaxConcurrencyReached"
    ELSE IF cooldown[c] THEN "CommandOnCooldown"
    ELSE "run"

\* The invocation never reaches the command body.
CommandRejected(c) ==
    /\ Gate(c) # "run"
    /\ rejected' = Gate(c)
    /\ UNCHANGED <<rounds, cooldown, call, lookup>>

\* The cooldown window of 20 seconds ends.
CooldownExpire(c) ==
    /\ cooldown[c]
    /\ cooldown' = [cooldown EXCEPT ![c] = FALSE]
    /\ UNCHANGED <<rounds, rejected, call, lookup>>

\* ------------------------------------------------------- whosthatpokemon

\* The test of line 843.
InvalidGeneration(generation) == Truthy(generation) /\ generation \notin AllowedSet

\* Lines 842-868: the argument check and the choice of poke_id, which
\* random.randint draws; draws are the values the specification follows.  The
\* cooldown bucket of the channel was used up on the way in, and line 844
\* resets it.
Command(r, u, c, generation, draws) ==
    /\ rounds[r].pc = "idle"
    /\ rejected' = "none"
    /\ UNCHANGED <<call, lookup>>
    /\ IF InvalidGeneration(generation)
       THEN /\ cooldown' = [cooldown EXCEPT ![c] = FALSE]
            /\ rounds' = [rounds EXCEPT ![r] =
                   [IdleRound EXCEPT !.pc = "done", !.author = u, !.channel = c,
                                     !.generation = generation,
                                     !.outcome = "InvalidArgument",
                                     !.log = <<"send_invalid">>]]
       ELSE /\ cooldown' = [cooldown EXCEPT ![c] = TRUE]
            /\ \E draw \in draws :
                 /\ draw \in randint(PokeRange(generation)[1], PokeRange(generation)[2])
                 /\ rounds' = [rounds EXCEPT ![r] =
                        [IdleRound EXCEPT !.pc = "generate_hidden", !.author = u,
                                          !.channel = c, !.generation = generation,
                                          !.poke_id = draw]]

\* Lines 830-868: the command behind its decorators.
whosthatpokemon(r, u, c, generation, draws) ==
    /\ Gate(c) = "run"
    /\ Command(r, u, c, generation, draws)

\* Lines 830-868 with the cooldown of line 831 as the only gate: the command
\* as it runs when max_concurrency does not hold an invocation back.
whosthatpokemon_unguarded(r, u, c, generation, draws) ==
    /\ ~cooldown[c]
    /\ Command(r, u, c, generation, draws)

\* The command raised: the exception leaves the coroutine.
Raise(round, cause) ==
    [round EXCEPT !.pc = "done", !.outcome = "Exception", !.failed = cause]

\* Lines 869-878: generate_image(..., True) and the reply with the hidden image.
generate_hidden(r, http) ==
    /\ rounds[r].pc = "generate_hidden"
    /\ LET round == [rounds[r] EXCEPT !.fetches = @ + 1,
                                      !.hidden_url = zfill(Str(rounds[r].poke_id), 3)]
       IN  rounds' = [rounds EXCEPT ![r] =
               IF ~Fetched(http)
               THEN Raise(round, "artwork")
               ELSE [round EXCEPT !.pc = "get_species", !.prompt = "shown",
                                  !.hidden_sent = TRUE,
                                  !.log = Append(@, "reply_prompt")]]
    /\ UNCHANGED <<cooldown, rejected, call, lookup>>

\* get_species requesting the reveal image ahead of the wait.
get_species_Prefetch(r, http, names) ==
    /\ rounds[r].pc = "get_species"
    /\ LET round == [rounds[r] EXCEPT !.fetches = @ + 2, !.species_id = rounds[r].poke_id,
                                      !.reveal_url = zfill(Str(rounds[r].poke_id), 3)]
       IN  rounds' = [rounds EXCEPT ![r] =
               IF ~Fetched(http)
               THEN Raise(round, "species")
               ELSE IF EnglishNames(names) = <<>>
               THEN Raise(round, "no_english")
               ELSE [round EXCEPT !.pc = "waiting", !.waited = TRUE,
                                  !.names_data = names,
                                  !.eligible_names = EligibleNames(names),
                                  !.english_name = EnglishNames(names)[1]]]
    /\ UNCHANGED <<cooldown, rejected, call, lookup>>

\* Lines 880-882: the species document and the two name lists.
get_species(r, http, names) ==
    /\ rounds[r].pc = "get_species"
    /\ LET round == [rounds[r] EXCEPT !.fetches = @ + 1, !.species_id = rounds[r].poke_id]
       IN  rounds' = [rounds EXCEPT ![r] =
               IF ~Fetched(http)
               THEN Raise(round, "species")
               ELSE IF EnglishNames(names) = <<>>
               THEN Raise([round EXCEPT !.names_data = names,
                                        !.eligible_names = EligibleNames(names)],
                          "no_english")
               ELSE [round EXCEPT !.pc = "waiting", !.waited = TRUE,
                                  !.names_data = names,
                                  !.eligible_names = EligibleNames(names),
                                  !.english_name = EnglishNames(names)[1]]]
    /\ UNCHANGED <<cooldown, rejected, call, lookup>>

\* Line 888, a message event: every waiting round whose check accepts the
\* message resumes with it.
on_message(u, c, content) ==
    LET m == [author |-> u, channel |-> c, content |-> content] IN
    /\ \E r \in Rounds : rounds[r].pc = "waiting"
    /\ rounds' = [r \in Rounds |->
           IF rounds[r].pc = "waiting" /\ check(rounds[r], m)
           THEN [rounds[r] EXCEPT !.pc = "generate_revealed", !.answer = <<m>>]
           ELSE IF rounds[r].pc = "waiting"
           THEN [rounds[r] EXCEPT !.ignored = TRUE]
           ELSE rounds[r]]
    /\ UNCHANGED <<cooldown, rejected, call, lookup>>

\* wait_timeout falling through to the verdict with an empty answer.
wait_timeout_FallsThrough(r, del) ==
    /\ rounds[r].pc = "waiting"
    /\ rounds' = [rounds EXCEPT ![r] =
           [@ EXCEPT !.pc = "done", !.timed_out = TRUE, !.verified = TRUE,
                     !.outcome = Verdict(<<>>, rounds[r].eligible_names),
                     !.deleted = del, !.prompt = PromptAfter(del),
                     !.shown_name = rounds[r].english_name,
                     !.log = @ \o <<"delete_prompt", "send_outcome">>]]
    /\ UNCHANGED <<cooldown, rejected, call, lookup>>

\* wait_timeout with no timeout on the wait: the round goes on waiting.
wait_timeout_Rearm(r, del) ==
    /\ rounds[r].pc = "waiting"
    /\ UNCHANGED <<rounds, cooldown, rejected, call, lookup>>

\* Lines 889-894: asyncio.TimeoutError from wait_for; the prompt is deleted
\* under suppress and the time-over message sent.
wait_timeout(r, del) ==
    /\ rounds[r].pc = "waiting"
    /\ LET round == [rounds[r] EXCEPT !.timed_out = TRUE, !.deleted = del,
                                      !.prompt = PromptAfter(del),
                                      !.log = Append(@, "delete_prompt")]
       IN  rounds' = [rounds EXCEPT ![r] =
               IF del # "ok" /\ ~Suppressed(del)
               THEN Raise(round, "delete")
               ELSE [round EXCEPT !.pc = "done", !.outcome = "Timeout",
                                  !.log = Append(@, "send_outcome")]]
    /\ UNCHANGED <<cooldown, rejected, call, lookup>>

\* Lines 896-916: generate_image(..., False), the verdict and the outcome embed.
generate_revealed(r, http, del) ==
    /\ rounds[r].pc = "generate_revealed"
    /\ LET round == [rounds[r] EXCEPT !.fetches = @ + 1,
                                      !.reveal_url = zfill(Str(rounds[r].poke_id), 3)]
       IN  rounds' = [rounds EXCEPT ![r] =
               IF ~Fetched(http)
               THEN Raise(round, "reveal")
               ELSE IF del # "ok" /\ ~Suppressed(del)
               THEN Raise([round EXCEPT !.verified = TRUE, !.deleted = del,
                                        !.prompt = PromptAfter(del),
                                        !.log = Append(@, "delete_prompt")],
                          "delete")
               ELSE [round EXCEPT !.pc = "done", !.verified = TRUE,
                                  !.outcome = Verdict(round.answer[1].content,
                                                      round.eligible_names),
                                  !.deleted = del, !.prompt = PromptAfter(del),
                                  !.shown_name = round.english_name,
                                  !.log = @ \o <<"delete_prompt", "send_outcome">>]]
    /\ UNCHANGED <<cooldown, rejected, call, lookup>>

\* The coroutine of a finished invocation is gone: its slot is free again.
Discard(r) ==
    /\ rounds[r].pc = "done"
    /\ rounds' = [rounds EXCEPT ![r] = IdleRound]
    /\ UNCHANGED <<cooldown, rejected, call, lookup>>

\* ------------------------------------------------------- generate_image

Positions(width, height) == (0..(width - 1)) \X (0..(height - 1))

\* Image.open(template.png): an image of the template's size.
Template(width, height) ==
    [width |-> width, height |-> height,
     px |-> [p \in Positions(width, height) |-> TemplatePixel]]

\* An image of one colour with one pixel of another.
Speckled(width, height, fill, spot, at) ==
    [width |-> width, height |-> height,
     px |-> [p \in Positions(width, height) |-> IF p = at THEN spot ELSE fill]]

\* int(x / d) of Python: the quotient cut towards zero.
IntDiv(x, d) == IF x >= 0 THEN x \div d ELSE -((-x) \div d)

\* int(n * 1.6) for a size n >= 0.
Scale(n) == (n * 16) \div 10

\* poke_image.resize((int(w * 1.6), int(h * 1.6))): the size is the code's, the
\* pixels are what the library's resampling yields, here content.
resize(image, content) ==
    [width |-> Scale(image.width), height |-> Scale(image.height), px |-> content]

\* Lines 812-815 on one pixel: p_load[x, y] = (1, 1, 1) stores alpha 255.
HidePixel(pixel) == IF pixel = <<0, 0, 0, 0>> THEN pixel ELSE <<1, 1, 1, 255>>

\* Lines 808-815: the loop over every pixel of the scaled sprite.
Hide(image) == [image EXCEPT !.px = [p \in DOMAIN image.px |-> HidePixel(image.px[p])]]

\* The library's blend of one channel under an 8-bit mask value.
MulDiv255(a, b) == LET tmp == a * b + 128 IN ((tmp \div 256) + tmp) \div 256

Blend(under, over, mask) ==
    [k \in 1..4 |-> MulDiv255(under[k], 255 - mask) + MulDiv255(over[k], mask)]

\* Lines 817-818.
PasteAt(base_image, poke_image) ==
    << IntDiv(base_image.width - poke_image.width, 10),
       IntDiv(base_image.height - poke_image.height, 4) >>

\* base_image.paste(im, at, im): im over base_image at offset at, through
\* im's own alpha; what falls outside base_image is cut off.
paste(base_image, im, at) ==
    [base_image EXCEPT !.px =
        [p \in DOMAIN base_image.px |->
            LET q == <<p[1] - at[1], p[2] - at[2]>> IN
            IF q \in DOMAIN im.px
            THEN Blend(base_image.px[p], im.px[q], im.px[q][4])
            ELSE base_image.px[p]]]

\* Lines 794-798: the template is opened and the sprite requested.
generate_image(hide, bg_width, bg_height) ==
    /\ call.pc = "idle"
    /\ call' = [IdleCall EXCEPT !.pc = "get_pokemon_image", !.hide = hide,
                                !.base_image = Template(bg_width, bg_height),
                                !.open = {"base_image"}]
    /\ UNCHANGED <<roundVars, lookup>>

\* Lines 798-828 when the sprite arrives: decode, resize, hide, paste, save,
\* close.  sprite is the decoded image, of which the code reads the size only;
\* content is the pixels of the scaled sprite.
Compose(c, sprite, content) ==
    LET poke_image_resized == resize(sprite, content)
        pasted == IF c.hide THEN Hide(poke_image_resized) ELSE poke_image_resized
        at == PasteAt(c.base_image, sprite)
    IN  [c EXCEPT !.pc = "done", !.result = "temp",
                  !.poke_image = sprite,
                  !.poke_image_resized = poke_image_resized,
                  !.pasted = pasted,
                  !.paste_at = at,
                  !.composite = paste(c.base_image, pasted, at),
                  !.open = (c.open \cup {"pbytes", "poke_image", "poke_image_resized", "temp"})
                               \ {"pbytes", "base_image", "poke_image"}]

\* Lines 798-828: generate_image resumes with what get_pokemon_image returns.
\* Without a 200 response pbytes is None and Image.open(None) raises.
generate_image_compose(http, width, height, fill, spot, at) ==
    /\ call.pc = "get_pokemon_image"
    /\ IF ~Fetched(http)
       THEN call' = [call EXCEPT !.pc = "done", !.result = "Exception"]
       ELSE /\ at \in Positions(Scale(width), Scale(height))
            /\ call' = Compose(call,
                           [width |-> width, height |-> height, px |-> <<>>],
                           Speckled(Scale(width), Scale(height), fill, spot, at).px)
    /\ UNCHANGED <<roundVars, lookup>>

\* The caller has the result; the locals are gone.
generate_image_return ==
    /\ call.pc = "done"
    /\ call' = IdleCall
    /\ UNCHANGED <<roundVars, lookup>>

\* ------------------------------------------------------- lookup commands

\* get_generation with the fourth generation starting one identifier early.
get_generation_Gen4From386(pkmn_id) ==
    IF pkmn_id > 898 THEN 0
    ELSE IF pkmn_id >= 810 THEN 8
    ELSE IF pkmn_id >= 722 THEN 7
    ELSE IF pkmn_id >= 650 THEN 6
    ELSE IF pkmn_id >= 494 THEN 5
    ELSE IF pkmn_id >= 386 THEN 4
    ELSE IF pkmn_id >= 252 THEN 3
    ELSE IF pkmn_id >= 152 THEN 2
    ELSE IF pkmn_id >= 1 THEN 1
    ELSE 0

\* def get_generation(self, pkmn_id)
get_generation(pkmn_id) ==
    IF pkmn_id > 898 THEN 0
    ELSE IF pkmn_id >= 810 THEN 8
    ELSE IF pkmn_id >= 722 THEN 7
    ELSE IF pkmn_id >= 650 THEN 6
    ELSE IF pkmn_id >= 494 THEN 5
    ELSE IF pkmn_id >= 387 THEN 4
    ELSE IF pkmn_id >= 252 THEN 3
    ELSE IF pkmn_id >= 152 THEN 2
    ELSE IF pkmn_id >= 1 THEN 1
    ELSE 0

\* self.intro_gen; the list is indexed from 0 in the source.
intro_gen == <<"na", "rb", "gs", "rs", "dp", "bw", "xy", "sm", "ss">>

\* The identifiers a pokemon document may carry: around the whole numbering,
\* and one of the alternate forms the data provider numbers from 10001.
DexIds == (0 - 1)..900 \cup {10001}

\* A species document, as far as pdex reads it: whether its names, genera and
\* flavor texts hold an English entry, and whether it names an evolution chain.
SpeciesDocs == [names : BOOLEAN, genera : BOOLEAN, flavor_text_entries : BOOLEAN,
                evolution_chain : BOOLEAN]

\* The fields of a document that hold no English entry.
NoEnglish(doc, fields) == {f \in fields : ~doc[f]}

\* The command sent its message (kind) and returned.
Sent(l, kind) == [l EXCEPT !.pc = "done", !.sent = kind]

\* An exception (name) left the command.
Raised(l, name) == [l EXCEPT !.pc = "done", !.raised = name]

\* One more external call, and one more failure unless it returned a 200.
Called(l, http) ==
    [l EXCEPT !.calls = @ + 1, !.failures = IF Fetched(http) THEN @ ELSE @ + 1]

\* Lines 150-182: get_pokemon_data and the fields of the pokemon document; the
\* document's id is one of ids.
pdex(http, ids) ==
    /\ lookup.pc = "idle"
    /\ LET l == Called([IdleLookup EXCEPT !.cmd = "pdex"], http) IN
       IF ~Fetched(http)
       THEN lookup' = Sent(l, "No results.")
       ELSE \E id \in ids :
                LET generation == get_generation(id) IN
                lookup' =
                    IF generation + 1 \notin DOMAIN intro_gen
                    THEN Raised([l EXCEPT !.id = id, !.generation = generation],
                                "IndexError")
                    ELSE [l EXCEPT !.pc = "get_species_data", !.id = id,
                                   !.generation = generation,
                                   !.introduced_in = intro_gen[generation + 1],
                                   !.pokemon_name = "data",
                                   !.sections = {"pokemon"}]
    /\ UNCHANGED <<roundVars, call>>

\* Lines 183-281: get_species_data and the species section.  The name falls
\* back under suppress(IndexError); genus[0] and random.choice(flavor_text) are
\* outside of it.
pdex_species(http, doc) ==
    /\ lookup.pc = "get_species_data"
    /\ LET l == Called(lookup, http) IN
       lookup' =
           IF ~Fetched(http)
           THEN Sent(l, "embed")
           ELSE LET named == [l EXCEPT
                         !.missing = NoEnglish(doc, {"names", "genera", "flavor_text_entries"}),
                         !.pokemon_name = IF doc.names THEN "species" ELSE "data"]
                IN  IF ~doc.genera \/ ~doc.flavor_text_entries
                    THEN Raised(named, "IndexError")
                    ELSE IF doc.evolution_chain
                    THEN [named EXCEPT !.pc = "get_evolution_chain",
                                       !.sections = @ \cup {"species"}]
                    ELSE Sent([named EXCEPT !.sections = @ \cup {"species"}], "embed")
    /\ UNCHANGED <<roundVars, call>>

\* Lines 283-316: (await self.get_evolution_chain(evo_url)).get("chain").
pdex_evolution(http) ==
    /\ lookup.pc = "get_evolution_chain"
    /\ LET l == Called(lookup, http) IN
       lookup' =
           IF ~Fetched(http)
           THEN Raised(l, "AttributeError")
           ELSE Sent([l EXCEPT !.sections = @ \cup {"evolution"}], "embed")
    /\ UNCHANGED <<roundVars, call>>

\* Lines 332-378: the ability document and its embed; effect_entries holds an
\* English entry or not.
ability(http, effect_entries) ==
    /\ lookup.pc = "idle"
    /\ LET l == Called([IdleLookup EXCEPT !.cmd = "ability"], http) IN
       lookup' =
           IF http = "timeout" THEN Sent(l, "Operation timed out.")
           ELSE IF ~Fetched(http) THEN Sent(l, "http.cat")
           ELSE IF ~effect_entries
           THEN Raised([l EXCEPT !.missing = {"effect_entries"}], "IndexError")
           ELSE Sent([l EXCEPT !.sections = {"effect"}], "embed")
    /\ UNCHANGED <<roundVars, call>>

\* Lines 386-411: the moves of a pokemon.
moves(http, has_moves) ==
    /\ lookup.pc = "idle"
    /\ LET l == Called([IdleLookup EXCEPT !.cmd = "moves"], http) IN
       lookup' =
           IF ~Fetched(http) THEN Sent(l, "No results.")
           ELSE IF ~has_moves THEN Sent(l, "No moves found for this Pokemon.")
           ELSE Sent([l EXCEPT !.sections = {"moves"}], "menu")
    /\ UNCHANGED <<roundVars, call>>

\* Lines 611-654: get_json of the item and its embed up to the fling effect.
item(http, effect_entries, fling_effect) ==
    /\ lookup.pc = "idle"
    /\ LET l == Called([IdleLookup EXCEPT !.cmd = "item"], http) IN
       lookup' =
           IF ~Fetched(http) THEN Sent(l, "No results.")
           ELSE IF ~effect_entries
           THEN Raised([l EXCEPT !.missing = {"effect_entries"}], "IndexError")
           ELSE IF fling_effect
           THEN [l EXCEPT !.pc = "get_fling_effect", !.sections = {"effect"}]
           ELSE Sent([l EXCEPT !.sections = {"effect"}], "embed")
    /\ UNCHANGED <<roundVars, call>>

\* Lines 655-670: get_json of the fling effect, skipped when it fails.
item_fling(http, effect_entries) ==
    /\ lookup.pc = "get_fling_effect"
    /\ LET l == Called(lookup, http) IN
       lookup' =
           IF ~Fetched(http) THEN Sent(l, "embed")
           ELSE IF ~effect_entries
           THEN Raised([l EXCEPT !.missing = {"fling_effect_entries"}], "IndexError")
           ELSE Sent([l EXCEPT !.sections = @ \cup {"fling_effect"}], "embed")
    /\ UNCHANGED <<roundVars, call>>

\* Lines 677-695: the items of a category.
item_category(http) ==
    /\ lookup.pc = "idle"
    /\ LET l == Called([IdleLookup EXCEPT !.cmd = "itemcat"], http) IN
       lookup' =
           IF ~Fetched(http) THEN Sent(l, "No results.")
           ELSE Sent([l EXCEPT !.sections = {"items"}], "embed")
    /\ UNCHANGED <<roundVars, call>>

\* Lines 702-705: the pokemon document and its location_area_encounters URL.
location(http, location_area_encounters) ==
    /\ lookup.pc = "idle"
    /\ LET l == Called([IdleLookup EXCEPT !.cmd = "location"], http) IN
       lookup' =
           IF ~(Fetched(http) /\ location_area_encounters)
           THEN Sent(l, "No location data found for said Pokemon.")
           ELSE [l EXCEPT !.pc = "get_encounters"]
    /\ UNCHANGED <<roundVars, call>>

\* Lines 707-717: the list of encounters, of the given length; an empty list
\* is falsy.
location_encounters(http, encounters) ==
    /\ lookup.pc = "get_encounters"
    /\ LET l == Called(lookup, http) IN
       lookup' =
           IF ~Fetched(http) \/ encounters = 0
           THEN Sent(l, "No location data found for this Pokemon.")
           ELSE [l EXCEPT !.pc = "get_area", !.left = encounters]
    /\ UNCHANGED <<roundVars, call>>

\* Lines 718-719: area_data = get_json(loc["url"]); area_data["location"].
location_area(http) ==
    /\ lookup.pc = "get_area"
    /\ LET l == Called(lookup, http) IN
       lookup' =
           IF ~Fetched(http) THEN Raised(l, "TypeError")
           ELSE [l EXCEPT !.pc = "get_location"]
    /\ UNCHANGED <<roundVars, call>>

\* Lines 719-734: location_data = get_json(...); location_data["names"], of
\* which the English ones are joined, and the embed after the last area.
location_place(http, names) ==
    /\ lookup.pc = "get_location"
    /\ LET l == Called(lookup, http) IN
       lookup' =
           IF ~Fetched(http) THEN Raised(l, "TypeError")
           ELSE LET listed == [l EXCEPT !.left = @ - 1,
                                        !.missing = IF names THEN @ ELSE @ \cup {"names"},
                                        !.sections = @ \cup {"area"}]
                IN  IF listed.left = 0 THEN Sent(listed, "embed")
                    ELSE [listed EXCEPT !.pc = "get_area"]
    /\ UNCHANGED <<roundVars, call>>

\* str.lower() on the selectors the model passes to trainercard.
LowerWord(word) ==
    CASE word = "DP" -> "dp"
      [] word = "May" -> "may"
      [] word = "KALOS" -> "kalos"
      [] OTHER -> word

\* The lists of lines 518, 520-529 and 531.
styles == {"default", "black", "collector", "dp", "purple"}

trainers == {"ash", "red", "ethan", "lyra", "brendan", "may", "lucas", "dawn"}

badges == {"kanto", "johto", "hoenn", "sinnoh", "unova", "kalos"}

\* The selectors the model passes: supported, supported in another case, not
\* supported.
StyleArgs == {"dp", "DP", "neon"}

TrainerArgs == {"may", "May", "misty"}

BadgeArgs == {"kalos", "KALOS", "galar"}

\* TooMany that lets a seventh selection through.
TooMany_MoreThanSeven(selections) == selections > 7

\* Line 533: len(pokemons.split()) > 6
TooMany(selections) == selections > 6

\* Lines 518-534: one of the four tests sends the help text.
SendsHelp(style, trainer, badge, selections) ==
    \/ LowerWord(style) \notin styles
    \/ LowerWord(trainer) \notin trainers
    \/ LowerWord(badge) \notin badges
    \/ TooMany(selections)

\* Lines 517-538: the argument tests of trainercard; selections is the number
\* of words of `pokemons`.
trainercard(style, trainer, badge, selections) ==
    /\ lookup.pc = "idle"
    /\ LET l == [IdleLookup EXCEPT !.cmd = "trainercard", !.style = style,
                                   !.trainer = trainer, !.badge = badge,
                                   !.selections = selections]
       IN  lookup' =
               IF SendsHelp(style, trainer, badge, selections)
               THEN Sent(l, "help")
               ELSE [l EXCEPT !.pc = "get_ids", !.left = selections]
    /\ UNCHANGED <<roundVars, call>>

\* The loop of lines 543-556 follows when an id was collected, the request of
\* the card when none was.
AfterIds(l) ==
    IF l.left > 0 THEN l
    ELSE IF l.pkmn_ids = <<>> THEN [l EXCEPT !.pc = "render"]
    ELSE [l EXCEPT !.pc = "get_panel", !.left = Len(l.pkmn_ids)]

\* Lines 538-541: get_ids = await self.get_pokemon_data(pokemon); get_ids.get("id").
\* The words of `pokemons` name different pokemon: the document of the i-th
\* word has the id i, or none.
trainercard_ids(http, has_id) ==
    /\ lookup.pc = "get_ids"
    /\ LET l == Called(lookup, http)
           id == lookup.selections - lookup.left + 1
       IN  lookup' =
           IF ~Fetched(http) THEN Raised(l, "AttributeError")
           ELSE AfterIds([l EXCEPT !.left = @ - 1,
                                   !.pkmn_ids = IF has_id THEN Append(@, id) ELSE @])
    /\ UNCHANGED <<roundVars, call>>

\* What the panel request answers with: HTML with a list item, HTML without,
\* or a body that is not JSON.
PanelBodies == {"li", "no_li", "not_json"}

\* The panel id the code falls back on, "1", and the data-id of the first list
\* item the panel request of number npn answers with: one per number, and
\* none of them the fallback.
DefaultPanel == 1

PanelOf(npn) == 100 + npn

\* Line 550: resp.status != 200 is false.
Status200(http) == http = "200"

\* Lines 544-556: the panel of one collected id, npn.  The post is outside of
\* any try; a status other than 200 appends "1" and the body is read all the
\* same.
trainercard_panel(http, body) ==
    /\ lookup.pc = "get_panel"
    /\ LET l == Called(lookup, http)
           npn == lookup.pkmn_ids[Len(lookup.pkmn_ids) - lookup.left + 1]
           first == IF Status200(http) THEN l.panel_ids
                    ELSE Append(l.panel_ids, DefaultPanel)
       IN  lookup' =
               IF http = "timeout" THEN Raised(l, "TimeoutError")
               ELSE IF body = "not_json"
               THEN Raised([l EXCEPT !.panel_ids = first], "ContentTypeError")
               ELSE LET done == [l EXCEPT !.left = @ - 1,
                                          !.panel_ids =
                                              Append(first, IF body = "li" THEN PanelOf(npn)
                                                            ELSE DefaultPanel)]
                    IN  IF done.left = 0 THEN [done EXCEPT !.pc = "render"] ELSE done
    /\ UNCHANGED <<roundVars, call>>

\* Lines 558-582: the request of the card, with the fields "pokemon" and
\* "pokemonUsed" of lines 564-565, and what is sent of its answer.
trainercard_render(http, output) ==
    /\ lookup.pc = "render"
    /\ LET l == [Called(lookup, http) EXCEPT
                    !.form = [pokemon |-> lookup.selections,
                              pokemonUsed |-> lookup.panel_ids]]
       IN
       lookup' =
           IF http = "timeout" THEN Sent(l, "Operation timed out.")
           ELSE IF ~Fetched(http) THEN Sent(l, "http.cat")
           ELSE IF output THEN Sent(l, "trainer-card.png")
           ELSE Sent(l, "No trainer card was generated. :(")
    /\ UNCHANGED <<roundVars, call>>

\* The command has returned; its locals are gone.
lookup_return ==
    /\ lookup.pc = "done"
    /\ lookup' = IdleLookup
    /\ UNCHANGED <<roundVars, call>>

\* ------------------------------------------------------- specifications

\* The steps of the rounds in slots rs, invoked by users us in channels cs with
\* labels ls while random.randint draws from ds, answered with contents ms, the
\* species carrying name lists ns.
Step(rs, us, cs, ls, ds, ns, ms) ==
    \/ \E c \in cs : CommandRejected(c)
    \/ \E c \in cs : CooldownExpire(c)
    \/ \E r \in rs, u \in us, c \in cs, generation \in ls :
           whosthatpokemon(r, u, c, generation, ds)
    \/ \E r \in rs, http \in HttpResults : generate_hidden(r, http)
    \/ \E r \in rs, http \in HttpResults, names \in ns : get_species(r, http, names)
    \/ \E u \in Users, c \in Channels, content \in ms : on_message(u, c, content)
    \/ \E r \in rs, del \in DeleteResults : wait_timeout(r, del)
    \/ \E r \in rs, http \in HttpResults, del \in DeleteResults : generate_revealed(r, http, del)
    \/ \E r \in rs : Discard(r)

\* The round flow: one slot, every user and channel, a few labels and draws.
Next == Step({1}, Users, Channels, FlowLabels, FlowDraws, NameLists, Contents)

Spec == Init /\ [][Next]_vars

\* The round flow with its scheduling: wait_for(..., timeout=15.0) raises
\* asyncio.TimeoutError unless a message was accepted before, and the event
\* loop resumes a coroutine whose await has completed.  Messages arrive or not.
NextLive == Step({1}, Users, Channels, {NONE, "gen9"}, {25}, NameLists, Contents)

SpecLive ==
    /\ Init
    /\ [][NextLive]_vars
    /\ WF_vars(\E del \in DeleteResults : wait_timeout(1, del))
    /\ WF_vars(\E http \in HttpResults, del \in DeleteResults : generate_revealed(1, http, del))

\* The coroutine of a new invocation takes the first free slot.
FirstIdle(r) ==
    /\ rounds[r].pc = "idle"
    /\ \A q \in Rounds : q < r => rounds[q].pc # "idle"

\* The rounds from the hidden image on, in every slot, with the messages of
\* users us in channels cs; a fetch succeeds or not, the deletion of the prompt
\* returns one of dels.
RoundSteps(us, cs, dels) ==
    \/ \E r \in Rounds, http \in {"200", "404"} : generate_hidden(r, http)
    \/ \E r \in Rounds, http \in {"200", "404"} : get_species(r, http, EnglishFirst)
    \/ \E u \in us, c \in cs : on_message(u, c, <<"p", "i">>)
    \/ \E r \in Rounds, del \in dels : wait_timeout(r, del)
    \/ \E r \in Rounds, http \in {"200", "404"}, del \in dels :
           generate_revealed(r, http, del)
    \/ \E r \in Rounds : Discard(r)

\* Invocations that overlap behind the gate: every slot and every channel, one
\* requester.
NextGate ==
    \/ \E c \in Channels : CommandRejected(c)
    \/ \E c \in Channels : CooldownExpire(c)
    \/ \E r \in Rounds, c \in Channels :
           FirstIdle(r) /\ whosthatpokemon(r, 1, c, NONE, {25})
    \/ RoundSteps({1}, Channels, {"ok"})

SpecGate == Init /\ [][NextGate]_vars

\* Invocations that overlap in one channel: the rounds of every requester as
\* they run when the concurrency gate lets a second invocation into the channel.
NextNoGate ==
    \/ CooldownExpire(1)
    \/ \E r \in Rounds, u \in Users :
           FirstIdle(r) /\ whosthatpokemon_unguarded(r, u, 1, NONE, {25})
    \/ RoundSteps(Users, {1}, {"ok", "Forbidden"})

SpecNoGate == Init /\ [][NextNoGate]_vars

\* The choice of the identifier: every label, every identifier of its range.
NextPick ==
    Step({1}, {1}, {1}, AllLabels, AllDraws, {EnglishFirst}, {<<"p", "i">>, <<"r", "a">>})

SpecPick == Init /\ [][NextPick]_vars

\* The image compositor: every template and sprite size of the bounds, every
\* speckled sprite over the palette.
NextImage ==
    \/ \E hide \in BOOLEAN, bg_width \in 1..MaxTemplateW, bg_height \in 1..MaxTemplateH :
           generate_image(hide, bg_width, bg_height)
    \/ \E http \in HttpResults, width \in 1..MaxSpriteW, height \in 1..MaxSpriteH,
          fill \in Palette, spot \in Palette,
          at \in Positions(Scale(MaxSpriteW), Scale(MaxSpriteH)) :
           generate_image_compose(http, width, height, fill, spot, at)
    \/ generate_image_return

SpecImage == Init /\ [][NextImage]_vars

\* The lookup commands: every identifier of DexIds, every species document,
\* every result of every fetch, every selector and number of selections.
NextLookup ==
    \/ \E http \in HttpResults : pdex(http, DexIds)
    \/ \E http \in HttpResults, doc \in SpeciesDocs : pdex_species(http, doc)
    \/ \E http \in HttpResults : pdex_evolution(http)
    \/ \E http \in HttpResults, effect_entries \in BOOLEAN : ability(http, effect_entries)
    \/ \E http \in HttpResults, has_moves \in BOOLEAN : moves(http, has_moves)
    \/ \E http \in HttpResults, effect_entries \in BOOLEAN, fling_effect \in BOOLEAN :
           item(http, effect_entries, fling_effect)
    \/ \E http \in HttpResults, effect_entries \in BOOLEAN : item_fling(http, effect_entries)
    \/ \E http \in HttpResults : item_category(http)
    \/ \E http \in HttpResults, url \in BOOLEAN : location(http, url)
    \/ \E http \in HttpResults, encounters \in 0..MaxEncounters :
           location_encounters(http, encounters)
    \/ \E http \in HttpResults : location_area(http)
    \/ \E http \in HttpResults, names \in BOOLEAN : location_place(http, names)
    \/ \E style \in StyleArgs, trainer \in TrainerArgs, badge \in BadgeArgs,
          selections \in 1..MaxSelections :
           trainercard(style, trainer, badge, selections)
    \/ \E http \in HttpResults, has_id \in BOOLEAN : trainercard_ids(http, has_id)
    \/ \E http \in HttpResults, body \in PanelBodies : trainercard_panel(http, body)
    \/ \E http \in HttpResults, output \in BOOLEAN : trainercard_render(http, output)
    \/ lookup_return

SpecLookup == Init /\ [][NextLookup]_vars

\* ------------------------------------------------------- claims

\* The rounds that were invoked and passed the gate.
Invoked == {r \in Rounds : rounds[r].pc # "idle"}

\* C1: a round invoked with a label that is not one of gen1..gen8 ends with the
\* invalid-argument message, has made no fetch, has sent no hidden image, has
\* never waited, and leaves the cooldown of its channel unconsumed.
C1_UnknownLabelRejected ==
    \A r \in Invoked :
        (rounds[r].generation # NONE /\ rounds[r].generation \notin AllowedSet) =>
            /\ rounds[r].outcome = "InvalidArgument"
            /\ rounds[r].fetches = 0
            /\ ~rounds[r].hidden_sent
            /\ ~rounds[r].waited
            /\ ~cooldown[rounds[r].channel]

\* What the code does hold of C1: the same for every non-empty unknown label.
C1_NonEmptyUnknownLabelRejected ==
    \A r \in Invoked :
        (rounds[r].generation \notin {NONE, ""} \cup AllowedSet) =>
            /\ rounds[r].outcome = "InvalidArgument"
            /\ rounds[r].pc = "done"
            /\ rounds[r].fetches = 0
            /\ ~rounds[r].hidden_sent
            /\ ~rounds[r].waited
            /\ \/ ~cooldown[rounds[r].channel]
               \/ \E q \in Invoked \ {r} : rounds[q].channel = rounds[r].channel

\* The ranges of the eight generations as the specification lists them.
GenerationRanges ==
    [ gen1 |-> 1..151, gen2 |-> 152..251, gen3 |-> 252..386, gen4 |-> 387..493,
      gen5 |-> 494..649, gen6 |-> 650..721, gen7 |-> 722..809, gen8 |-> 810..898 ]

\* C2: the identifier of a round lies in the range of its label, in 1..898 with
\* no label, and every request of the round (hidden image, species, reveal
\* image) is made for that identifier.
C2_IdentifierInRange ==
    \A r \in Invoked :
        rounds[r].outcome # "InvalidArgument" =>
            /\ rounds[r].generation \in AllowedSet =>
                   rounds[r].poke_id \in GenerationRanges[rounds[r].generation]
            /\ rounds[r].generation \in {NONE, ""} => rounds[r].poke_id \in 1..898
            /\ rounds[r].hidden_url # <<>> => UrlNumber(rounds[r].hidden_url) = rounds[r].poke_id
            /\ rounds[r].species_id # 0 => rounds[r].species_id = rounds[r].poke_id
            /\ rounds[r].reveal_url # <<>> => UrlNumber(rounds[r].reveal_url) = rounds[r].poke_id

\* A gen3 round at the top of its range that made all three requests.
C2_Witness ==
    \E r \in Invoked :
        /\ rounds[r].generation = "gen3" /\ rounds[r].poke_id = 386
        /\ rounds[r].outcome = "Correct"
        /\ rounds[r].hidden_url = <<3, 8, 6>> /\ rounds[r].reveal_url = <<3, 8, 6>>
        /\ rounds[r].species_id = 386

\* C3: a round that reaches the verdict ends Correct exactly when the
\* lower-cased answer equals the lower-cased form of some name of the species,
\* whatever its language, and ends Incorrect otherwise.
C3_CorrectIffMember ==
    \A r \in Invoked :
        rounds[r].verified =>
            LET content == rounds[r].answer[1].content
                member == \E i \in DOMAIN rounds[r].names_data :
                              Lower(content) = Lower(rounds[r].names_data[i].name)
            IN  /\ rounds[r].outcome \in {"Correct", "Incorrect"}
                /\ rounds[r].outcome = "Correct" <=> member

\* The English name typed in upper case was accepted from a list whose first
\* entry is Japanese.
C3_Witness ==
    \E r \in Invoked :
        /\ rounds[r].outcome = "Correct"
        /\ rounds[r].answer[1].content = <<"P", "I">>
        /\ rounds[r].names_data[1].language = "ja"

\* C4: the outcome message of a Correct or Incorrect round shows the name of
\* the English-tagged entry of the name list.
C4_EnglishNameShown ==
    \A r \in Invoked :
        rounds[r].outcome \in {"Correct", "Incorrect"} =>
            \E i \in DOMAIN rounds[r].names_data :
                /\ rounds[r].names_data[i].language = "en"
                /\ rounds[r].shown_name = rounds[r].names_data[i].name

\* The Japanese name was guessed from a list whose first entry is Japanese, and
\* the English name was shown.
C4_Witness ==
    \E r \in Invoked :
        /\ rounds[r].outcome = "Correct"
        /\ rounds[r].answer[1].content = <<"k", "a">>
        /\ rounds[r].names_data[1].language = "ja"
        /\ rounds[r].shown_name = NamePi

\* C5: a round whose wait timed out never reaches the verdict, never requests
\* the reveal image, and ends with the time-over outcome.
C5_TimeoutOnly ==
    \A r \in Invoked :
        rounds[r].timed_out =>
            /\ ~rounds[r].verified
            /\ rounds[r].reveal_url = <<>>
            /\ rounds[r].fetches = 2
            /\ rounds[r].outcome = "Timeout"

\* A round timed out after passing a message over.
C5_Witness ==
    \E r \in Invoked : rounds[r].timed_out /\ rounds[r].ignored /\ rounds[r].pc = "done"

\* C6: the wait begins only after the hidden image was sent, and the reveal
\* image is requested only after the hidden image was sent and the wait has
\* ended.
C6_Ordering ==
    \A r \in Invoked :
        /\ rounds[r].waited => rounds[r].hidden_sent
        /\ rounds[r].pc = "waiting" => rounds[r].reveal_url = <<>>
        /\ rounds[r].reveal_url # <<>> =>
               /\ rounds[r].hidden_sent
               /\ rounds[r].waited
               /\ rounds[r].pc # "waiting"
               /\ rounds[r].answer # <<>> \/ rounds[r].timed_out

\* A round requested the reveal image.
C6_Witness ==
    \E r \in Invoked :
        rounds[r].reveal_url # <<>> /\ rounds[r].waited /\ rounds[r].hidden_sent

\* C7: the answer of a round is a message of the round's requester in the
\* round's channel, and a wait that has ended ended by such a message or by
\* the timeout.
C7_OnlyRequesterInChannel ==
    \A r \in Invoked :
        /\ rounds[r].answer # <<>> =>
               /\ rounds[r].answer[1].author = rounds[r].author
               /\ rounds[r].answer[1].channel = rounds[r].channel
        /\ (rounds[r].waited /\ rounds[r].pc # "waiting") =>
               (rounds[r].answer # <<>>) # rounds[r].timed_out

\* A round passed a message over and then took the requester's answer.
C7_Witness ==
    \E r \in Invoked : rounds[r].ignored /\ rounds[r].answer # <<>>

\* C8: a round whose artwork or species fetch failed ends with a
\* data-unavailable report, leaves no hidden-image prompt displayed, and never
\* waits; no exception leaves the command.
C8_FetchFailureReported ==
    \A r \in Invoked :
        rounds[r].failed \in {"artwork", "species"} =>
            /\ rounds[r].outcome = "DataUnavailable"
            /\ rounds[r].prompt # "shown"
            /\ ~rounds[r].waited

\* A call of generate_image with hide = True that returned its buffer.
HiddenReturned == call.result = "temp" /\ call.hide

\* C9: in a masked composite every pixel of the scaled sprite with alpha > 0
\* has become the opaque near-black pixel and every pixel with alpha 0 is as it
\* was, so the silhouette has the scaled sprite's alpha shape.
C9_SilhouetteKeepsAlphaShape ==
    HiddenReturned =>
        \A p \in DOMAIN call.poke_image_resized.px :
            LET before == call.poke_image_resized.px[p]
                after == call.pasted.px[p]
            IN  /\ before[4] > 0 => after = <<1, 1, 1, 255>>
                /\ before[4] = 0 => after = before
                /\ (after[4] = 0) <=> (before[4] = 0)

\* What the code does hold of C9: only the pixel (0, 0, 0, 0) is passed over.
C9_OnlyClearBlackKept ==
    HiddenReturned =>
        \A p \in DOMAIN call.poke_image_resized.px :
            LET before == call.poke_image_resized.px[p]
                after == call.pasted.px[p]
            IN  after = IF before = <<0, 0, 0, 0>> THEN before ELSE <<1, 1, 1, 255>>

\* C10: a masked composite has the template's width and height, and where a
\* pixel of the scaled sprite with alpha 0 falls on the template the template's
\* pixel is unchanged.
C10_SizeAndTransparencyKept ==
    HiddenReturned =>
        /\ call.composite.width = call.base_image.width
        /\ call.composite.height = call.base_image.height
        /\ DOMAIN call.composite.px = Positions(call.base_image.width, call.base_image.height)
        /\ \A q \in DOMAIN call.poke_image_resized.px :
               LET p == <<q[1] + call.paste_at[1], q[2] + call.paste_at[2]>> IN
               (call.poke_image_resized.px[q][4] = 0 /\ p \in DOMAIN call.composite.px) =>
                   call.composite.px[p] = call.base_image.px[p]

\* What the code does hold of C10: the size, for every sprite and template.
C10_SizeKept ==
    call.result = "temp" =>
        /\ call.composite.width = call.base_image.width
        /\ call.composite.height = call.base_image.height
        /\ DOMAIN call.composite.px = Positions(call.base_image.width, call.base_image.height)

\* C11: the image pasted is the scaled sprite, through its own alpha, and its
\* offset on the template is (template width - its width) / 10 across and
\* (template height - its height) / 4 down.
C11_OffsetFromPastedSprite ==
    call.result = "temp" =>
        /\ call.pasted.width = Scale(call.poke_image.width)
        /\ call.pasted.height = Scale(call.poke_image.height)
        /\ call.composite = paste(call.base_image, call.pasted, call.paste_at)
        /\ call.paste_at = << IntDiv(call.base_image.width - call.pasted.width, 10),
                              IntDiv(call.base_image.height - call.pasted.height, 4) >>

\* What the code does hold of C11: the scaled sprite is pasted through its own
\* alpha, at the offset computed from the size of the sprite before scaling.
C11_OffsetFromDecodedSprite ==
    call.result = "temp" =>
        /\ call.pasted.width = Scale(call.poke_image.width)
        /\ call.pasted.height = Scale(call.poke_image.height)
        /\ call.composite = paste(call.base_image, call.pasted, call.paste_at)
        /\ call.paste_at = << IntDiv(call.base_image.width - call.poke_image.width, 10),
                              IntDiv(call.base_image.height - call.poke_image.height, 4) >>

\* C18: when generate_image has returned its buffer, the fetched bytes, the
\* decoded sprite, the scaled sprite and the template are closed; the returned
\* buffer alone is open.
C18_IntermediateBuffersReleased ==
    call.result = "temp" => call.open = {"temp"}

\* What the code does hold of C18: the scaled sprite alone is left open beside
\* the returned buffer.
C18_ScaledSpriteLeftOpen ==
    call.result = "temp" => call.open = {"temp", "poke_image_resized"}

\* The last two calls a round made on the platform's messages.
LastTwo(log) == IF Len(log) < 2 THEN <<>> ELSE SubSeq(log, Len(log) - 1, Len(log))

\* C16: a round whose wait timed out or whose answer reached the verdict has
\* attempted the deletion of the prompt and then sent its outcome message,
\* whatever the deletion returned, and its outcome is the one the wait and the
\* answer decide: time over, or the verdict on the answer.
C16_DeleteThenOutcome ==
    \A r \in Invoked :
        (rounds[r].timed_out \/ rounds[r].verified) =>
            /\ rounds[r].deleted \in DeleteResults
            /\ LastTwo(rounds[r].log) = <<"delete_prompt", "send_outcome">>
            /\ rounds[r].outcome =
                   IF rounds[r].timed_out THEN "Timeout"
                   ELSE Verdict(rounds[r].answer[1].content, rounds[r].eligible_names)

\* The deletion of the prompt was forbidden, the prompt is still shown, and the
\* round sent its Correct message all the same.
C16_Witness ==
    \E r \in Invoked :
        /\ rounds[r].deleted = "Forbidden" /\ rounds[r].prompt = "shown"
        /\ rounds[r].outcome = "Correct"
        /\ rounds[r].log = <<"reply_prompt", "delete_prompt", "send_outcome">>

\* The outcome messages a round has sent.
OutcomeMessages(log) == Len(SelectSeq(log, LAMBDA e : e = "send_outcome"))

\* The three outcomes of a round that waited.
Outcomes == {"Timeout", "Correct", "Incorrect"}

\* C17: a round that is waiting for its answer ends, and it ends with one of
\* time over, Correct and Incorrect unless its reveal fetch failed; a round
\* never sends two outcome messages, and a round that ended with an outcome
\* has sent exactly one.
C17_WaitEndsWithOneOutcome ==
    /\ [](\A r \in Rounds :
             /\ OutcomeMessages(rounds[r].log) <= 1
             /\ rounds[r].outcome \in Outcomes => OutcomeMessages(rounds[r].log) = 1)
    /\ \A r \in Rounds :
           (rounds[r].pc = "waiting") ~>
               /\ rounds[r].pc = "done" /\ rounds[r].waited
               /\ rounds[r].failed = "reveal" \/ rounds[r].outcome \in Outcomes

\* A round passed a message over, then took an answer and ended Incorrect with
\* its one outcome message.
C17_Witness ==
    \E r \in Invoked :
        /\ rounds[r].pc = "done" /\ rounds[r].waited /\ rounds[r].ignored
        /\ rounds[r].outcome = "Incorrect"
        /\ OutcomeMessages(rounds[r].log) = 1

\* The rounds running in channel c, and those of them waiting for an answer.
Active(c) == {r \in Rounds : rounds[r].pc \notin {"idle", "done"} /\ rounds[r].channel = c}

Waiting(c) == {r \in Rounds : rounds[r].pc = "waiting" /\ rounds[r].channel = c}

\* C15: behind the gate a channel has at most one running round and at most
\* one round waiting for an answer, and a round that ended by timeout takes no
\* further step but the release of its slot: no message resumes it.
C15_OneActiveRoundPerChannel ==
    /\ [](\A c \in Channels : Cardinality(Active(c)) <= 1 /\ Cardinality(Waiting(c)) <= 1)
    /\ [][\A r \in Rounds :
              rounds[r].timed_out =>
                  /\ rounds[r].pc = "done" /\ rounds[r].answer = <<>>
                  /\ rounds'[r] \in {rounds[r], IdleRound}]_vars

\* Two rounds wait at the same time in two channels, and a third invocation
\* was turned away from one of them.
C15_Witness ==
    /\ \E r, q \in Rounds :
           /\ rounds[r].pc = "waiting" /\ rounds[q].pc = "waiting"
           /\ rounds[r].channel # rounds[q].channel
    /\ rejected = "MaxConcurrencyReached"

\* Two rounds of different requesters wait in one channel.
Rivals(r, q) ==
    /\ r # q
    /\ rounds[r].pc = "waiting" /\ rounds[q].pc = "waiting"
    /\ rounds[r].channel = rounds[q].channel
    /\ rounds[r].author # rounds[q].author

\* The messages of the platform, whatever they say.
Messages == [author : Users, channel : Channels, content : {<<"p", "i">>}]

\* C19: when two rounds of different requesters wait in one channel without
\* the gate, some message is accepted by a round whose requester did not write
\* it, or by both rounds.
C19_FilterInsufficient ==
    \A r, q \in Rounds :
        Rivals(r, q) =>
            \E m \in Messages :
                \/ check(rounds[r], m) /\ m.author # rounds[r].author
                \/ check(rounds[q], m) /\ m.author # rounds[q].author
                \/ check(rounds[r], m) /\ check(rounds[q], m)

\* C19 as the code has it: when two rounds of different requesters wait in one
\* channel without the gate, every message is accepted by the round of its
\* author at most, never by both, and an answer a round holds was written by
\* the round's requester in the round's channel.
C19_FilterDisambiguates ==
    /\ \A r, q \in Rounds :
           Rivals(r, q) =>
               \A m \in Messages :
                   /\ ~(check(rounds[r], m) /\ check(rounds[q], m))
                   /\ check(rounds[r], m) => m.author = rounds[r].author
    /\ \A r, q \in Invoked :
           (r # q /\ rounds[r].answer # <<>> /\ rounds[q].answer # <<>>
                  /\ rounds[r].author # rounds[q].author) =>
               /\ rounds[r].answer[1].author = rounds[r].author
               /\ rounds[q].answer[1].author = rounds[q].author

\* Of two rounds of different requesters in one channel, one took its
\* requester's message and the other passed that message over and still waits.
C19_Witness ==
    \E r, q \in Invoked :
        /\ rounds[r].channel = rounds[q].channel
        /\ rounds[r].author # rounds[q].author
        /\ rounds[r].pc = "generate_revealed" /\ rounds[r].answer # <<>>
        /\ rounds[q].pc = "waiting" /\ rounds[q].ignored

\* The identifiers whosthatpokemon can select with the label of generation N.
Selectable(N) == randint(PokeRange(allowed_gens[N])[1], PokeRange(allowed_gens[N])[2])

\* A pdex invocation that has read the identifier of its pokemon document.
PdexRead == lookup.cmd = "pdex" /\ lookup.sent # "No results."

\* C20: an identifier of 1..898 lies in the range of exactly one of the eight
\* labels and an identifier outside lies in none; get_generation returns N
\* exactly for the identifiers label genN can select and 0 outside of 1..898;
\* the index pdex looks the introduction game up with is within 0..8.
C20_GenerationAgreesWithRanges ==
    PdexRead =>
        LET i == lookup.id IN
        /\ Cardinality({N \in 1..8 : i \in Selectable(N)}) = IF i \in 1..898 THEN 1 ELSE 0
        /\ \A N \in 1..8 : (lookup.generation = N) <=> (i \in Selectable(N))
        /\ i \notin 1..898 => lookup.generation = 0
        /\ lookup.generation \in 0..8
        /\ lookup.introduced_in = intro_gen[lookup.generation + 1]
        /\ "pokemon" \in lookup.sections

\* pdex answered for the first identifier of the fourth generation, and named
\* Diamond/Pearl as its introduction.
C20_Witness ==
    /\ lookup.cmd = "pdex" /\ lookup.sent = "embed"
    /\ lookup.id = 387 /\ lookup.generation = 4 /\ lookup.introduced_in = "dp"

\* C12: a pdex, ability or item lookup whose documents arrived but hold no
\* English entry in some field raises nothing and still sends its embed, and a
\* guessing round whose species has no English name raises nothing either.
C12_DegradesWithoutEnglish ==
    /\ (lookup.cmd \in {"pdex", "ability", "item"} /\ lookup.missing # {}
            /\ lookup.failures = 0) =>
           /\ lookup.raised = "none"
           /\ lookup.pc = "done" => lookup.sent = "embed"
    /\ \A r \in Invoked :
           (rounds[r].names_data # <<>> /\ EnglishNames(rounds[r].names_data) = <<>>) =>
               rounds[r].outcome # "Exception"

\* The part of C12 on the guessing round, for the specification of the rounds.
C12_RoundWithoutEnglishName ==
    \A r \in Invoked :
        (rounds[r].names_data # <<>> /\ EnglishNames(rounds[r].names_data) = <<>>) =>
            rounds[r].outcome # "Exception"

\* What the code does hold of C12: pdex without an English name alone, and
\* with no failed fetch, falls back on the name of the pokemon document and
\* sends its embed.
C12_PdexNameFallsBack ==
    (lookup.cmd = "pdex" /\ lookup.missing = {"names"} /\ lookup.failures = 0) =>
        /\ lookup.raised = "none"
        /\ lookup.pokemon_name = "data"
        /\ lookup.pc = "done" => lookup.sent = "embed"

\* The messages that report a failed fetch.
FailureMessages ==
    { "No results.", "http.cat", "Operation timed out.",
      "No location data found for said Pokemon.",
      "No location data found for this Pokemon." }

\* C13: a pdex, moves, location, item, itemcat or trainercard invocation of
\* which some fetch, the first or a later one, failed raises nothing and ends
\* with a no-results or status message.
C13_AnyFetchFailureReported ==
    (lookup.cmd \in {"pdex", "moves", "location", "item", "itemcat", "trainercard"}
         /\ lookup.failures > 0) =>
        /\ lookup.raised = "none"
        /\ lookup.pc = "done" => lookup.sent \in FailureMessages

\* The part of C13 on exceptions: no lookup of which a fetch failed raises.
C13_NoExceptionAfterFetchFailure ==
    (lookup.cmd \in {"pdex", "moves", "location", "item", "itemcat", "trainercard"}
         /\ lookup.failures > 0) =>
        lookup.raised = "none"

\* What the code does hold of C13: the failure of the first fetch of pdex,
\* moves, location, item and itemcat is reported with a message.
C13_FirstFetchFailureReported ==
    (lookup.cmd \in {"pdex", "moves", "location", "item", "itemcat"}
         /\ lookup.calls = 1 /\ lookup.failures = 1) =>
        /\ lookup.raised = "none"
        /\ lookup.pc = "done" /\ lookup.sent \in FailureMessages

\* A trainercard invocation whose style, trainer or badge is in no list of the
\* command in any case, or that names more than six pokemon.
InvalidCard ==
    \/ LowerWord(lookup.style) \notin styles
    \/ LowerWord(lookup.trainer) \notin trainers
    \/ LowerWord(lookup.badge) \notin badges
    \/ lookup.selections > 6

\* C14: a trainercard invocation with an unsupported selector or more than six
\* selections has sent the help text, has made no external call and is over;
\* an invocation with supported selectors and at most six selections never
\* sends the help text.
C14_InvalidCardGetsHelp ==
    lookup.cmd = "trainercard" =>
        /\ InvalidCard =>
               /\ lookup.sent = "help" /\ lookup.pc = "done"
               /\ lookup.calls = 0 /\ lookup.raised = "none"
        /\ ~InvalidCard => lookup.sent # "help"

\* Seven pokemon with supported selectors: help, and no call.
C14_Witness ==
    /\ lookup.cmd = "trainercard" /\ lookup.selections = 7
    /\ lookup.style = "DP" /\ lookup.trainer = "may" /\ lookup.badge = "kalos"
    /\ lookup.sent = "help" /\ lookup.calls = 0

\* Six pokemon with supported selectors: the card was requested and sent.
C14_SixSelectionsServed ==
    /\ lookup.cmd = "trainercard" /\ lookup.selections = 6
    /\ lookup.sent = "trainer-card.png" /\ lookup.calls > 6

\* A trainercard invocation that has posted the request of the card.
CardRequested == lookup.cmd = "trainercard" /\ lookup.sent \notin {"none", "help"}

\* list holds one panel id for every id of ids, in their order: the panel of
\* the number, or the fallback.
OnePanelPerId(list, ids) ==
    /\ Len(list) = Len(ids)
    /\ \A i \in DOMAIN list : list[i] \in {PanelOf(ids[i]), DefaultPanel}

\* C21: the pokemonUsed field of a card request holds exactly one panel id
\* for every resolved pokemon id, in the order of the selections, whatever the
\* status and the body of each panel request, and as many entries as the
\* pokemon field of the same request declares.
C21_OnePanelPerSelection ==
    CardRequested =>
        /\ lookup.selections <= 6
        /\ OnePanelPerId(lookup.form.pokemonUsed, lookup.pkmn_ids)
        /\ Len(lookup.form.pokemonUsed) = lookup.form.pokemon

\* The part of C21 on the panel requests alone, for invocations of which every
\* selection resolved to an id.
C21_OnePanelPerResolvedId ==
    (CardRequested /\ Len(lookup.pkmn_ids) = lookup.selections) =>
        OnePanelPerId(lookup.form.pokemonUsed, lookup.pkmn_ids)

\* What the code does hold of C21: when every selection resolved to an id and
\* every panel request returned a 200, the list is one panel id per selection.
C21_OnePanelWhenAllSucceed ==
    (lookup.cmd = "trainercard" /\ lookup.pc = "render" /\ lookup.failures = 0
         /\ Len(lookup.pkmn_ids) = lookup.selections) =>
        /\ OnePanelPerId(lookup.panel_ids, lookup.pkmn_ids)
        /\ Len(lookup.panel_ids) = lookup.selections

====
